---------------------------- MODULE Spec2Model ----------------------------
(* A model of the delay effect of src/lib.rs: the struct Delay (its VecDeque  *)
(* of past samples), the three host parameters, Delay::initialize and         *)
(* Delay::process.                                                            *)
(*                                                                            *)
(* Numbers. The code computes in f32. The model computes exactly, on values   *)
(* for which the f32 computation is exact too:                                *)
(*   - a sample rate is an integer number of milli-Hz (1500 is 1.5 Hz), so    *)
(*     that the capacity floor(2 * sample_rate) is small;                     *)
(*   - time is an integer number of milliseconds;                             *)
(*   - feedback is FeedbackValues / FbDen and mix is MixValues / MixDen;      *)
(*   - a sample is an integer number of 1 / Unit, with Unit a multiple of     *)
(*     MixDen * FbDen^MaxFrames, so that every product with feedback or mix   *)
(*     within MaxFrames frames is an integer (ExactArithmetic checks it).     *)
EXTENDS Integers, Sequences, FiniteSets

\* ------------------------------------------------------------------ bounds

\* Frames processed after one initialize, under Spec.
MaxFrames == 4
\* Frames processed after initialize, under SpecImpulse.
MaxImpulseFrames == 7
\* Frames processed after one initialize by each of the two runs, under
\* SpecChannels.
MaxChannelFrames == 3

\* ------------------------------------------------- constants of the program

\* FloatRange of the parameter time (milliseconds).
TimeMin == 1
TimeMax == 2000
\* Default of the parameter time.
TimeDefault == 300

\* ------------------------------------------------------------ value grids

RECURSIVE Pow(_, _)
Pow(b, e) == IF e = 0 THEN 1 ELSE b * Pow(b, e - 1)

\* Sample rates, in milli-Hz: 0.25 Hz and 1 Hz.
SampleRates == {250, 1000}
\* Times (ms) the host sets, within [TimeMin, TimeMax].
TimeValues == {TimeDefault, TimeMax}
\* The finer grids of SpecImpulse: 0.25 Hz to 2.5 Hz, the whole range of time,
\* feedback in quarters: 0, 1/4, 1/2, 3/4, 1.
ImpulseSampleRates == {250, 1000, 1500, 2500}
ImpulseTimes == {TimeMin, TimeDefault, 1000, 1500, TimeMax}
ImpulseFeedbacks == {0, 1, 2, 3, 4}
\* The feedback 1.0, in quarters.
FbDen == CHOOSE d \in ImpulseFeedbacks : \A f \in ImpulseFeedbacks : f <= d
\* Feedback under Spec: 0 and the default 1/2.
FeedbackValues == {0, FbDen \div 2}
\* Mix in halves: 0, 1/2, 1.
MixValues == {0, 1, 2}
\* The mix 1.0, in halves.
MixDen == CHOOSE d \in MixValues : \A m \in MixValues : m <= d
\* The sample value 1.0.
MaxOf(a, b) == IF a >= b THEN a ELSE b
Unit == MixDen * Pow(FbDen, MaxOf(MaxFrames, MaxImpulseFrames))
\* Input samples of channel 0 and of channel 1.
Inputs0 == {0, Unit}
Inputs1 == {0, Unit}

VARIABLES
    deque,        \* self.deque, front first: deque[1] is index 0
    sample_rate,  \* buffer_config.sample_rate = transport().sample_rate; 0: none yet
    time,         \* self.params.time
    feedback,     \* self.params.feedback
    mix,          \* self.params.mix
    pc,           \* "idle", or "frames" inside process()
    l_time,       \* process()'s local time
    l_feedback,   \* process()'s local feedback
    l_mix,        \* process()'s local mix
    index,        \* process()'s local index
    frame,        \* the last frame handled: its dry input, delay and outputs
    n,            \* frames handled since the last initialize
    silent,       \* every input sample since the last initialize was 0
    second,       \* the second sample pushed since the last initialize (0: none yet)
    reinit,       \* the last initialize found a non-zero sample in the deque
    capacity,     \* the samples the deque is sure to have room for: what
                  \* with_capacity() was asked for, or a push_front had to make
    grew,         \* a push_front since the last initialize went beyond that room
    twin          \* a second run of the plugin, for the claims that compare two
                  \* runs: its deque, its last frame, its process() locals

vars == <<deque, sample_rate, time, feedback, mix, pc, l_time, l_feedback,
          l_mix, index, frame, n, silent, second, reinit, capacity, grew, twin>>

\* ---------------------------------------------------------- pure functions

\* `x as usize` of the f32 num / den (den > 0): truncation, negative to 0.
AsUsize(num, den) == IF num < 0 THEN 0 ELSE num \div den

\* (2.0 * buffer_config.sample_rate) as usize
Capacity(sr) == AsUsize(2 * sr, 1000)

\* TapIndex without its -1.0: the tap one sample too old.
TapIndexNoOffset(t, sr) == AsUsize(t * sr, 1000000)

\* (-1.0 + time * 0.001 * context.transport().sample_rate) as usize
TapIndex(t, sr) == AsUsize(t * sr - 1000000, 1000000)

\* RemoveIndex without its -1.0: the index after the last sample of a full deque.
RemoveIndexNoOffset(sr) == AsUsize(2 * sr, 1000)

\* (-1.0 + 2.0 * context.transport().sample_rate) as usize
RemoveIndex(sr) == AsUsize(2 * sr - 1000, 1000)

\* Get with the oldest stored sample, not 0.0, for an index out of range.
GetClamped(dq, i) ==
    IF i < Len(dq) THEN dq[i + 1] ELSE IF Len(dq) > 0 THEN dq[Len(dq)] ELSE 0

\* Get with the default 1.0 instead of 0.0.
GetOrOne(dq, i) == IF i < Len(dq) THEN dq[i + 1] ELSE Unit

\* *dq.get(i).unwrap_or(&0.0)
Get(dq, i) == IF i < Len(dq) THEN dq[i + 1] ELSE 0

\* dq.remove(i): nothing when i is out of range
Remove(dq, i) ==
    IF i < Len(dq) THEN SubSeq(dq, 1, i) \o SubSeq(dq, i + 2, Len(dq)) ELSE dq

\* dq.push_front(x)
PushFront(dq, x) == <<x>> \o dq

\* x * (p / den)
Times(x, p, den) == (x * p) \div den

\* Mix with its two weights exchanged.
MixSwapped(dry, delay, mx) ==
    Times(dry, mx, MixDen) + Times(delay, MixDen - mx, MixDen)

\* Mix with the dry sample at full level.
MixDryFull(dry, delay, mx) == dry + Times(delay, mx, MixDen)

\* dry * (1.0 - mix) + delay * mix
Mix(dry, delay, mx) == Times(dry, MixDen - mx, MixDen) + Times(delay, mx, MixDen)

\* Stored without the feedback factor.
StoredNoFeedback(dry, delay, fb) == dry + delay

\* dry + delay * feedback
Stored(dry, delay, fb) == dry + Times(delay, fb, FbDen)

\* ProcessSample with the push before the read: the dry sample is pushed, the
\* delayed value is read at idx, and the feedback is added to the front.
ProcessSamplePushFirst(dq, idx, rm, fb, mx, in0, in1) ==
    LET pushed == PushFront(Remove(dq, rm), in0)
        delay == Get(pushed, idx)
        out0 == Mix(in0, delay, mx)
    IN  [deque |-> PushFront(Tail(pushed), Stored(in0, delay, fb)),
         delay |-> delay,
         out0  |-> out0,
         out1  |-> out0]

\* ProcessSample with the output written to channel 0 before the push, so that
\* the push reads the output, not the dry sample.
ProcessSampleStoreOutput(dq, idx, rm, fb, mx, in0, in1) ==
    LET delay == Get(dq, idx)
        out0 == Mix(in0, delay, mx)
    IN  [deque |-> PushFront(Remove(dq, rm), Stored(out0, delay, fb)),
         delay |-> delay,
         out0  |-> out0,
         out1  |-> out0]

\* ProcessSample without the copy of channel 0 to channel 1.
ProcessSampleNoCopy(dq, idx, rm, fb, mx, in0, in1) ==
    LET delay == Get(dq, idx)
    IN  [deque |-> PushFront(Remove(dq, rm), Stored(in0, delay, fb)),
         delay |-> delay,
         out0  |-> Mix(in0, delay, mx),
         out1  |-> in1]

\* ProcessSample on the mean of the two channels, not on channel 0.
ProcessSampleMean(dq, idx, rm, fb, mx, in0, in1) ==
    LET dry == (in0 + in1) \div 2
        delay == Get(dq, idx)
        out0 == Mix(dry, delay, mx)
    IN  [deque |-> PushFront(Remove(dq, rm), Stored(dry, delay, fb)),
         delay |-> delay,
         out0  |-> out0,
         out1  |-> out0]

\* One iteration of the loop of process() over a frame (in0, in1).
ProcessSample(dq, idx, rm, fb, mx, in0, in1) ==
    LET delay == Get(dq, idx)
        out0 == Mix(in0, delay, mx)
    IN  [deque |-> PushFront(Remove(dq, rm), Stored(in0, delay, fb)),
         delay |-> delay,
         out0  |-> out0,
         out1  |-> out0]

\* The room after a push that left len samples: push_front grows a full deque,
\* to room for len samples at least.
Grown(cap, len) == IF len > cap THEN len ELSE cap

\* initialize() that reserves room in the deque it has and keeps its samples.
InitializedDequeKept(dq, sr) == dq

\* The deque initialize() leaves: VecDeque::with_capacity(..), empty.
InitializedDeque(dq, sr) == << >>

\* ------------------------------------------------------------------ state

NoFrame == [in0 |-> 0, delay |-> 0, out0 |-> 0, out1 |-> 0]

\* The second run after construction. differed: its channel 1 got another
\* input than the first run's; split: the first run began a further process()
\* call after its first frame.
NoTwin == [deque |-> << >>, frame |-> NoFrame, pc |-> "idle", l_feedback |-> 0,
           l_mix |-> 0, index |-> 0, differed |-> FALSE, split |-> FALSE]

Init ==
    /\ deque = << >>
    /\ sample_rate = 0
    /\ time = TimeDefault
    /\ feedback = FbDen \div 2
    /\ mix = MixDen \div 2
    /\ pc = "idle"
    /\ l_time = 0
    /\ l_feedback = 0
    /\ l_mix = 0
    /\ index = 0
    /\ frame = NoFrame
    /\ n = 0
    /\ silent = TRUE
    /\ second = 0
    /\ reinit = FALSE
    /\ capacity = 0
    /\ grew = FALSE
    /\ twin = NoTwin

\* The host or the user changes a parameter.
SetTime(t) ==
    /\ time' = t
    /\ UNCHANGED <<deque, sample_rate, feedback, mix, pc, l_time, l_feedback,
                   l_mix, index, frame, n, silent, second, reinit, capacity, grew>>

SetFeedback(f) ==
    /\ feedback' = f
    /\ UNCHANGED <<deque, sample_rate, time, mix, pc, l_time, l_feedback,
                   l_mix, index, frame, n, silent, second, reinit, capacity, grew>>

SetMix(m) ==
    /\ mix' = m
    /\ UNCHANGED <<deque, sample_rate, time, feedback, pc, l_time, l_feedback,
                   l_mix, index, frame, n, silent, second, reinit, capacity, grew>>

\* Delay::initialize, never during process().
Initialize(sr) ==
    /\ pc = "idle"
    /\ deque' = InitializedDeque(deque, sr)
    /\ sample_rate' = sr
    /\ reinit' = (\E i \in 1..Len(deque) : deque[i] # 0)
    /\ frame' = NoFrame
    /\ n' = 0
    /\ silent' = TRUE
    /\ second' = 0
    /\ capacity' = Capacity(sr)
    /\ grew' = FALSE
    /\ UNCHANGED <<time, feedback, mix, pc, l_time, l_feedback, l_mix, index>>

\* process() that starts every call on an empty deque.
ProcessBeginFlush ==
    /\ pc = "idle"
    /\ sample_rate # 0
    /\ pc' = "frames"
    /\ l_time' = time
    /\ l_feedback' = feedback
    /\ l_mix' = mix
    /\ index' = TapIndex(time, sample_rate)
    /\ deque' = << >>
    /\ UNCHANGED <<sample_rate, time, feedback, mix, frame, n, silent,
                   second, reinit, capacity, grew>>

\* Delay::process up to its loop: the parameters are read, index is computed.
ProcessBegin ==
    /\ pc = "idle"
    /\ sample_rate # 0
    /\ pc' = "frames"
    /\ l_time' = time
    /\ l_feedback' = feedback
    /\ l_mix' = mix
    /\ index' = TapIndex(time, sample_rate)
    /\ UNCHANGED <<deque, sample_rate, time, feedback, mix, frame, n, silent,
                   second, reinit, capacity, grew>>

\* ProcessFrame reading the parameters anew in every frame, not the values
\* process() read before its loop.
ProcessFrameLive(in0, in1) ==
    /\ pc = "frames"
    /\ LET r == ProcessSample(deque, TapIndex(time, sample_rate),
                              RemoveIndex(sample_rate), feedback, mix, in0, in1)
       IN  /\ deque' = r.deque
           /\ frame' = [in0 |-> in0, delay |-> r.delay,
                        out0 |-> r.out0, out1 |-> r.out1]
    /\ n' = n + 1
    /\ silent' = (silent /\ in0 = 0 /\ in1 = 0)
    /\ second' = IF n = 1 THEN deque'[1] ELSE second
    /\ capacity' = Grown(capacity, Len(deque'))
    /\ grew' = (grew \/ Len(deque') > capacity)
    /\ UNCHANGED <<sample_rate, time, feedback, mix, pc, l_time, l_feedback,
                   l_mix, index, reinit>>

\* One iteration of the loop, on the next frame of the block.
ProcessFrame(in0, in1) ==
    /\ pc = "frames"
    /\ LET r == ProcessSample(deque, index, RemoveIndex(sample_rate),
                              l_feedback, l_mix, in0, in1)
       IN  /\ deque' = r.deque
           /\ frame' = [in0 |-> in0, delay |-> r.delay,
                        out0 |-> r.out0, out1 |-> r.out1]
    /\ n' = n + 1
    /\ silent' = (silent /\ in0 = 0 /\ in1 = 0)
    /\ second' = IF n = 1 THEN deque'[1] ELSE second
    /\ capacity' = Grown(capacity, Len(deque'))
    /\ grew' = (grew \/ Len(deque') > capacity)
    /\ UNCHANGED <<sample_rate, time, feedback, mix, pc, l_time, l_feedback,
                   l_mix, index, reinit>>

\* The block has no more frames: process() returns ProcessStatus::Normal.
ProcessEnd ==
    /\ pc = "frames"
    /\ pc' = "idle"
    /\ l_time' = 0
    /\ l_feedback' = 0
    /\ l_mix' = 0
    /\ index' = 0
    /\ UNCHANGED <<deque, sample_rate, time, feedback, mix, frame, n, silent,
                   second, reinit, capacity, grew>>

Next ==
    /\ \/ \E t \in TimeValues : SetTime(t)
       \/ \E f \in FeedbackValues : SetFeedback(f)
       \/ \E m \in MixValues : SetMix(m)
       \/ \E sr \in SampleRates : Initialize(sr)
       \/ ProcessBegin
       \/ n < MaxFrames /\ \E in0 \in Inputs0, in1 \in Inputs1 : ProcessFrame(in0, in1)
       \/ ProcessEnd
    /\ UNCHANGED twin

Spec == Init /\ [][Next]_vars

\* An impulse into an empty deque under constant parameters: the parameters have
\* any value from the start, initialize is called once, and channel 0 is 1.0 at
\* frame 0 and 0 at every later frame, in blocks of any length.
InitImpulse ==
    /\ deque = << >>
    /\ sample_rate = 0
    /\ time \in ImpulseTimes
    /\ feedback \in ImpulseFeedbacks
    /\ mix \in MixValues
    /\ pc = "idle"
    /\ l_time = 0
    /\ l_feedback = 0
    /\ l_mix = 0
    /\ index = 0
    /\ frame = NoFrame
    /\ n = 0
    /\ silent = TRUE
    /\ second = 0
    /\ reinit = FALSE
    /\ capacity = 0
    /\ grew = FALSE
    /\ twin = NoTwin

NextImpulse ==
    /\ \/ sample_rate = 0 /\ \E sr \in ImpulseSampleRates : Initialize(sr)
       \/ ProcessBegin
       \/ n < MaxImpulseFrames /\ ProcessFrame(IF n = 0 THEN Unit ELSE 0, 0)
       \/ ProcessEnd
    /\ UNCHANGED twin

SpecImpulse == InitImpulse /\ [][NextImpulse]_vars

\* The same operations on the second run, which has the first run's sample
\* rate and parameters.
TwinInitialize(sr) ==
    twin' = [twin EXCEPT !.deque = InitializedDeque(twin.deque, sr),
                         !.frame = NoFrame,
                         !.differed = FALSE,
                         !.split = FALSE]

TwinBegin ==
    twin' = [twin EXCEPT !.pc = "frames",
                         !.l_feedback = feedback,
                         !.l_mix = mix,
                         !.index = TapIndex(time, sample_rate)]

TwinFrame(in0, in1, other) ==
    /\ twin.pc = "frames"
    /\ LET r == ProcessSample(twin.deque, twin.index, RemoveIndex(sample_rate),
                              twin.l_feedback, twin.l_mix, in0, in1)
       IN  twin' = [twin EXCEPT !.deque = r.deque,
                                !.frame = [in0 |-> in0, delay |-> r.delay,
                                           out0 |-> r.out0, out1 |-> r.out1],
                                !.differed = (twin.differed \/ in1 # other)]

TwinEnd ==
    twin' = [twin EXCEPT !.pc = "idle", !.l_feedback = 0, !.l_mix = 0, !.index = 0]

\* Two runs with the same lifecycle calls, the same parameters and the same
\* channel 0 inputs, and any channel 1 inputs each.
NextChannels ==
    \/ (\E t \in TimeValues : SetTime(t)) /\ UNCHANGED twin
    \/ (\E f \in FeedbackValues : SetFeedback(f)) /\ UNCHANGED twin
    \/ (\E m \in MixValues : SetMix(m)) /\ UNCHANGED twin
    \/ \E sr \in SampleRates : Initialize(sr) /\ TwinInitialize(sr)
    \/ ProcessBegin /\ TwinBegin
    \/ n < MaxChannelFrames /\ \E in0 \in Inputs0, in1 \in Inputs1, in1b \in Inputs1 :
           ProcessFrame(in0, in1) /\ TwinFrame(in0, in1b, in1)
    \/ ProcessEnd /\ TwinEnd

SpecChannels == Init /\ [][NextChannels]_vars

\* Two runs on the same frames under constant parameters, initialized once: the
\* first run in process() calls of any length, the second in one call.
InitBlocks ==
    /\ deque = << >>
    /\ sample_rate = 0
    /\ time \in TimeValues
    /\ feedback \in FeedbackValues
    /\ mix \in MixValues
    /\ pc = "idle"
    /\ l_time = 0
    /\ l_feedback = 0
    /\ l_mix = 0
    /\ index = 0
    /\ frame = NoFrame
    /\ n = 0
    /\ silent = TRUE
    /\ second = 0
    /\ reinit = FALSE
    /\ capacity = 0
    /\ grew = FALSE
    /\ twin = NoTwin

NextBlocks ==
    \/ sample_rate = 0 /\ \E sr \in ImpulseSampleRates : Initialize(sr) /\ TwinInitialize(sr)
    \/ /\ ProcessBegin
       /\ IF twin.pc = "idle"
          THEN TwinBegin
          ELSE twin' = [twin EXCEPT !.split = (twin.split \/ n >= 1)]
    \/ n < MaxFrames /\ \E in0 \in Inputs0, in1 \in Inputs1 :
           ProcessFrame(in0, in1) /\ TwinFrame(in0, in1, in1)
    \/ ProcessEnd /\ UNCHANGED twin

SpecBlocks == InitBlocks /\ [][NextBlocks]_vars

\* Every product with feedback or mix is an integer number of 1 / Unit.
ExactArithmetic ==
    /\ \A i \in 1..Len(deque) : deque[i] % (MixDen * Pow(FbDen, MaxOf(MaxFrames, MaxImpulseFrames) - n)) = 0
    /\ Len(deque) <= n


\* ------------------------------------------------------------------ claims

\* A step of the loop of process(): ProcessFrame is the one action that adds 1
\* to n.
FrameStep == pc = "frames" /\ n' = n + 1

\* C1: in every frame the delayed value is the sample that was at the tap index
\* before the frame's push, whatever the frame's input, and the frame pushes
\* exactly one sample: behind the new front the deque holds what it held, less
\* the sample remove() took.
C1_ReadBeforePush ==
    [][FrameStep =>
         /\ frame'.delay = Get(deque, index)
         /\ deque' # << >>
         /\ Tail(deque') = Remove(deque, RemoveIndex(sample_rate))]_vars

\* C1's case: a frame with a non-zero input read the tap at index 0 and got the
\* 0 of the frame before it, not the sample it pushed itself.
C1_Witness ==
    /\ pc = "frames"
    /\ index = 0
    /\ Len(deque) >= 2
    /\ deque[1] # 0
    /\ deque[2] = 0
    /\ frame.in0 # 0
    /\ frame.delay = 0

\* C4: as long as every input sample since initialize was 0, every stored
\* sample and both output samples are 0.
C4_SilenceInSilenceOut ==
    silent =>
        /\ \A i \in 1..Len(deque) : deque[i] = 0
        /\ frame.delay = 0
        /\ frame.out0 = 0
        /\ frame.out1 = 0

\* C4's case: three or more silent frames went through a block with feedback
\* and with mix 1, and the deque holds their samples.
C4_Witness ==
    /\ silent
    /\ n >= 3
    /\ Len(deque) >= 2
    /\ pc = "frames"
    /\ l_feedback # 0
    /\ l_mix = MixDen

\* C6: a frame whose tap index is at or beyond the number of samples stored
\* reads 0.0 and completes as any frame does: it stays in the loop, pushes its
\* dry sample (plus feedback times 0) and writes the mix of dry and 0.
C6_OutOfRangeIsSilence ==
    [][(FrameStep /\ index >= Len(deque)) =>
         /\ frame'.delay = 0
         /\ pc' = "frames"
         /\ deque' # << >>
         /\ deque'[1] = frame'.in0
         /\ frame'.out0 = Times(frame'.in0, MixDen - l_mix, MixDen)]_vars

\* C6's case: the second frame after initialize found one non-zero sample
\* stored and read the tap at index 1, beyond it: its delayed value is 0 and
\* its own sample is stored in front of the older one.
C6_Witness ==
    /\ pc = "frames"
    /\ index = 1
    /\ n = 2
    /\ Len(deque) = 2
    /\ deque[2] # 0
    /\ frame.in0 # 0
    /\ deque[1] = frame.in0
    /\ frame.delay = 0

\* C7: after initialize the deque is empty, every lookup gives 0.0, and the
\* first frame processed afterwards has the delayed value 0.
C7_InitializeClears ==
    /\ n = 0 => (deque = << >> /\ \A i \in 0..MaxFrames : Get(deque, i) = 0)
    /\ n = 1 => frame.delay = 0

\* C7's case: initialize found non-zero samples, and the first frame after it
\* read the tap at index 0.
C7_Witness ==
    /\ reinit
    /\ n = 1
    /\ pc = "frames"
    /\ index = 0
    /\ frame.in0 # 0
    /\ frame.delay = 0

\* C8: a frame processed with mix 0 outputs its dry input, and one processed
\* with mix 1 outputs its delayed value.
C8_MixBounds ==
    [][FrameStep =>
         /\ l_mix = 0 => frame'.out0 = frame'.in0
         /\ l_mix = MixDen => frame'.out0 = frame'.delay]_vars

\* C8's case: a frame with mix 1 whose delayed value differs from its dry input.
C8_Witness ==
    /\ pc = "frames"
    /\ l_mix = MixDen
    /\ n >= 2
    /\ frame.delay # frame.in0
    /\ frame.out0 = frame.delay

\* C9: the two output samples of a frame are equal.
C9_ChannelsEqual == frame.out0 = frame.out1

\* C9's case: a frame whose output is neither 0.0 nor 1.0, the only values the
\* input of channel 1 takes.
C9_Witness ==
    /\ n >= 1
    /\ frame.out0 \notin Inputs1
    /\ frame.out1 = frame.out0


\* The delay length d = time * 0.001 * sample_rate in samples: its whole part
\* floor(d), and round(d) as f32::round rounds (halves away from zero).
Whole(t, sr) == (t * sr) \div 1000000
Rounded(t, sr) == (2 * t * sr + 1000000) \div 2000000
\* The frames between a push and the read of the pushed sample: floor(d), and 1
\* when d < 1.
DelayFrames(t, sr) == IF Whole(t, sr) = 0 THEN 1 ELSE Whole(t, sr)

Echo(f, k) == (Unit * Pow(f, k - 1)) \div Pow(FbDen, k - 1)
Abs(x) == IF x < 0 THEN -x ELSE x

\* C3: with feedback f in (0,1) and a delay of D frames, the delayed value is
\* non-zero only at the frames D, 2D, 3D, ...; at frame k*D it is f^(k-1)
\* times the impulse, and not larger in magnitude than the echo before it.
C3_FeedbackDecay ==
    (0 < feedback /\ feedback < FbDen /\ n >= 1) =>
        LET D == DelayFrames(time, sample_rate)
            i == n - 1
            k == i \div D
        IN  IF i > 0 /\ i % D = 0
            THEN /\ frame.delay # 0
                 /\ frame.delay * Pow(FbDen, k - 1) = Unit * Pow(feedback, k - 1)
                 /\ k >= 2 => Abs(frame.delay) <= Abs(Echo(feedback, k - 1))
            ELSE frame.delay = 0

\* C3's case: the second echo, for a delay of two or more frames.
C3_Witness ==
    /\ 0 < feedback
    /\ feedback < FbDen
    /\ DelayFrames(time, sample_rate) >= 2
    /\ n - 1 = 2 * DelayFrames(time, sample_rate)
    /\ frame.delay # 0
    /\ frame.delay * FbDen = Unit * feedback


\* C5 as stated, with N = floor(2 * sample_rate): after N + 1 frames the lookup
\* at N - 1 (when there is such an index) gives the second sample pushed, and
\* every lookup at N or beyond gives 0.0.
C5_EvictionAtFloor ==
    LET N == Capacity(sample_rate)
    IN  (sample_rate # 0 /\ n = N + 1) =>
            /\ N >= 1 => Get(deque, N - 1) = second
            /\ \A i \in N..(N + MaxFrames) : Get(deque, i) = 0

\* The samples the deque holds at most: floor(2 * sample_rate), and 1 when that
\* is 0.
Held(sr) == IF Capacity(sr) = 0 THEN 1 ELSE Capacity(sr)

\* C5, amended, with N = max(1, floor(2 * sample_rate)): after N + 1 frames the
\* lookup at N - 1 gives the second sample pushed and every lookup at N or
\* beyond gives 0.0; a push onto a deque of N samples evicts the oldest sample
\* and no other, and a push onto a shorter deque evicts nothing.
C5_EvictionAtHeld ==
    /\ [](LET N == Held(sample_rate)
          IN  (sample_rate # 0 /\ n = N + 1) =>
                  /\ Get(deque, N - 1) = second
                  /\ \A i \in N..(N + MaxFrames) : Get(deque, i) = 0)
    /\ [][FrameStep =>
            LET N == Held(sample_rate)
            IN  /\ Len(deque) <= N
                /\ Tail(deque') = IF Len(deque) = N
                                  THEN SubSeq(deque, 1, N - 1)
                                  ELSE deque]_vars

\* C5's case: at 1 Hz (N = 2) three frames were pushed, the second one non-zero
\* and now the oldest stored, behind a different third one.
C5_Witness ==
    /\ Held(sample_rate) = 2
    /\ n = 3
    /\ Len(deque) = 2
    /\ second # 0
    /\ deque[2] = second
    /\ deque[1] # second

RECURSIVE GCD(_, _)
GCD(a, b) == IF b = 0 THEN a ELSE GCD(b, a % b)

\* C10 as stated: the delayed value of a frame is the linear interpolation
\* lookup(whole) * (1 - frac) + lookup(whole + 1) * frac of the taps at
\* whole = floor(d) and whole + 1, frac = d - whole being p / q in lowest terms.
C10_Interpolated ==
    [][FrameStep =>
         LET ts == l_time * sample_rate
             whole == ts \div 1000000
             g == GCD(ts % 1000000, 1000000)
             p == (ts % 1000000) \div g
             q == 1000000 \div g
         IN  frame'.delay * q =
                 Get(deque, whole) * (q - p) + Get(deque, whole + 1) * p]_vars

\* C10, amended: the delayed value of a frame is the one tap lookup(whole - 1),
\* whole = floor(d), or lookup(0) when d < 1; there is no interpolation, and an
\* out-of-range tap gives 0.
C10_SingleTap ==
    [][FrameStep =>
         LET whole == (l_time * sample_rate) \div 1000000
         IN  frame'.delay = Get(deque, IF whole = 0 THEN 0 ELSE whole - 1)]_vars

\* C10's case: a frame with d = 2 read a non-zero sample, the one at index 1.
C10_Witness ==
    /\ pc = "frames"
    /\ l_time * sample_rate = 2000000
    /\ n >= 3
    /\ frame.delay # 0
    /\ frame.in0 = 0
    /\ l_feedback = 0


\* C11 as stated: every frame takes its tap index, its stored value and its
\* output from the values time, feedback and mix have at that frame.
C11_CurrentValues ==
    [][FrameStep =>
         /\ frame'.delay = Get(deque, TapIndex(time, sample_rate))
         /\ deque'[1] = Stored(frame'.in0, frame'.delay, feedback)
         /\ frame'.out0 = Mix(frame'.in0, frame'.delay, mix)]_vars

\* C11, amended: process() reads time, feedback and mix once, before its loop,
\* and every frame of the call takes its tap index, its stored value and its
\* output from the values read then, whatever the parameters are by that frame.
C11_BlockValues ==
    /\ [][(pc = "idle" /\ pc' = "frames") =>
            (l_time' = time /\ l_feedback' = feedback /\ l_mix' = mix)]_vars
    /\ [][FrameStep =>
            /\ l_time' = l_time /\ l_feedback' = l_feedback /\ l_mix' = l_mix
            /\ frame'.delay = Get(deque, TapIndex(l_time, sample_rate))
            /\ deque'[1] = Stored(frame'.in0, frame'.delay, l_feedback)
            /\ frame'.out0 = Mix(frame'.in0, frame'.delay, l_mix)]_vars

\* C11's case: all three parameters differ from the values the call read, and
\* the last frame's tap, stored value and output are those of the values read,
\* not of the current ones.
C11_Witness ==
    /\ pc = "frames"
    /\ n >= 3
    /\ time # l_time
    /\ feedback # l_feedback
    /\ mix # l_mix
    /\ Len(deque) >= 2
    /\ frame.in0 # 0
    /\ frame.delay # 0
    /\ Get(Tail(deque), TapIndex(l_time, sample_rate)) = frame.delay
    /\ Get(Tail(deque), TapIndex(time, sample_rate)) # frame.delay
    /\ deque[1] = Stored(frame.in0, frame.delay, l_feedback)
    /\ deque[1] # Stored(frame.in0, frame.delay, feedback)
    /\ frame.out0 = Mix(frame.in0, frame.delay, l_mix)
    /\ frame.out0 # Mix(frame.in0, frame.delay, mix)


\* C12 as stated: after initialize at sample rate R the deque never holds more
\* than floor(2 * R) samples, the room initialize reserved, and no frame has to
\* grow the storage.
C12_WithinReserved ==
    sample_rate # 0 =>
        /\ Len(deque) <= Capacity(sample_rate)
        /\ capacity = Capacity(sample_rate)
        /\ ~grew

\* C13 as stated: after initialize the capacity asked for is 1 at least, also
\* when 2 * sample_rate truncates to 0.
C13_CapacityClamped == sample_rate # 0 => capacity >= 1

\* C16 as stated: in every frame the tap index is at most capacity - 1, with
\* the capacity floor(2 * sample_rate) the deque was sized for; once the deque
\* is full the delayed value is a stored sample, and at time = 2000 ms it is
\* the oldest one.
C16_TapWithinCapacity ==
    [][FrameStep =>
         /\ index <= Capacity(sample_rate) - 1
         /\ Len(deque) >= Capacity(sample_rate) =>
                /\ index < Len(deque)
                /\ frame'.delay = deque[index + 1]
                /\ l_time = TimeMax => frame'.delay = deque[Len(deque)]]_vars


\* cos(mix * pi/2) and sin(mix * pi/2) in thousandths, as an interval [lo, hi],
\* for mix 0, 1/2 and 1: cos(0) = 1, cos(pi/4) = sin(pi/4) = 0.7071..,
\* cos(pi/2) = 0.
CosMilli(mx) ==
    IF mx = 0 THEN <<1000, 1000>>
    ELSE IF mx = MixDen THEN <<0, 0>> ELSE <<707, 708>>
SinMilli(mx) == CosMilli(MixDen - mx)
Least(a, b) == IF a <= b THEN a ELSE b
Most(a, b) == IF a >= b THEN a ELSE b

\* C14 as stated: the output of a frame is the equal-power crossfade
\* dry * cos(mix * pi/2) + delayed * sin(mix * pi/2), here in thousandths and
\* within the interval the rounding of cos and sin leaves.
C14_EqualPower ==
    [][(FrameStep /\ 2 * l_mix \in {0, MixDen, 2 * MixDen}) =>
         LET dry == frame'.in0
             delay == frame'.delay
             c == CosMilli(l_mix)
             z == SinMilli(l_mix)
         IN  /\ 1000 * frame'.out0 >=
                    Least(dry * c[1], dry * c[2]) + Least(delay * z[1], delay * z[2])
             /\ 1000 * frame'.out0 <=
                    Most(dry * c[1], dry * c[2]) + Most(delay * z[1], delay * z[2])]_vars

\* C14, amended: the output of a frame is the linear crossfade
\* dry * (1 - mix) + delayed * mix.
C14_LinearCrossfade ==
    [][FrameStep =>
         frame'.out0 * MixDen =
             frame'.in0 * (MixDen - l_mix) + frame'.delay * l_mix]_vars

\* C14's case: a frame mixed half and half from a dry and a delayed sample
\* that are both non-zero and differ.
C14_Witness ==
    /\ pc = "frames"
    /\ 2 * l_mix = MixDen
    /\ frame.in0 # 0
    /\ frame.delay # 0
    /\ frame.delay # frame.in0
    /\ 2 * frame.out0 = frame.in0 + frame.delay

\* C15: the sample a frame leaves at index 0 is its dry input plus feedback
\* times its delayed value: the input as it was before the output was written,
\* not the output.
C15_StoredIsDryPlusFeedback ==
    [][FrameStep =>
         /\ deque' # << >>
         /\ deque'[1] * FbDen = frame'.in0 * FbDen + frame'.delay * l_feedback]_vars

\* C15's case: a frame with feedback whose output differs from its dry input,
\* and whose stored sample is built on the dry input.
C15_Witness ==
    /\ pc = "frames"
    /\ l_feedback # 0
    /\ l_mix # 0
    /\ frame.delay # 0
    /\ frame.in0 # 0
    /\ frame.out0 # frame.in0
    /\ deque[1] = Stored(frame.in0, frame.delay, l_feedback)
    /\ deque[1] # Stored(frame.out0, frame.delay, l_feedback)

\* C17: two runs that differ only in the input of channel 1 have the same
\* delay buffer and the same outputs on both channels after every step:
\* the input of channel 1 reaches neither.
C17_Channel1Ignored ==
    /\ twin.deque = deque
    /\ twin.frame.out0 = frame.out0
    /\ twin.frame.out1 = frame.out1

\* <<C17 happens: the channel 1 inputs of the two runs differed, and a frame
\* played a stored sample back>>
C17_Witness ==
    /\ twin.differed
    /\ n >= 2
    /\ frame.delay # 0
    /\ frame.out1 # 0
    /\ deque # << >>

\* C18: with constant parameters and one initialize, the run that gets the
\* frames in process() calls of any length and the run that gets them in one
\* call have the same delay buffer and the same frame results.
C18_BlockSplitIndependent ==
    /\ twin.deque = deque
    /\ twin.frame = frame

\* <<C18 happens: the first run began a further call between two frames, and a
\* frame after that played a stored sample back>>
C18_Witness ==
    /\ twin.split
    /\ pc = "frames"
    /\ n >= 3
    /\ frame.delay # 0

=============================================================================
